---- MODULE Spec2Model ----
(***************************************************************************)
(* Research-Assistant backend (src/app/main.py, src/app/services.py):      *)
(* the chunk store behind the ChromaDB collection, the HTTP handlers       *)
(* upload_chunks, similarity_search, chat_with_llm, get_usage_statistics   *)
(* and get_journal_content, and the read-modify-write loop                 *)
(* update_usage_counts_in_chroma.                                          *)
(*                                                                         *)
(* Numbers: a distance and a score are kept in tenths (Scale = 1.0).       *)
(* Strings that the code only passes through (ids, texts, queries) are     *)
(* TLA+ strings; the attributes, which the code joins and splits, are      *)
(* sequences of characters.                                                *)
(***************************************************************************)
EXTENDS Integers, Sequences, FiniteSets, TLC

VARIABLES
    store,      \* the collection: chunk id -> stored record, or NoChunk
    uploaded,   \* history: chunk id -> the attributes list last upserted for it
    pc,         \* per worker: where its handler stands
    req,        \* per worker: the request it is serving
    hits,       \* per worker: formatted_results (search) or the raw results (chat)
    ids,        \* per worker: chunk_ids of update_usage_counts_in_chroma
    idx,        \* per worker: position of the loop in ids
    cur,        \* per worker: current_usage_count read for ids[idx]
    resp,       \* per worker: the response, once the handler has answered
    pre,        \* history: per worker, usage_count of every chunk when the request began
    failedIds,  \* history: per worker, the ids whose read or write raised
    lastFailed  \* history: the chat request answered 500 by generate just before, if any

vars == <<store, uploaded, pc, req, hits, ids, idx, cur, resp, pre, failedIds, lastFailed>>

(***************************************************************************)
(* Bounds of the model.                                                    *)
(***************************************************************************)
MaxK == 2
MaxBatch == 1
MaxUploadUsage == 1
MaxUsage == 2
MaxAttrs == 2
MaxAttrLen == 1

\* 1.0 in tenths: score = 1 - distance
Scale == 10

Procs == {"w1", "w2"}
ChunkIds == {"", "a1", "a2"}
DocIds == {"", "doc1", "doc2"}
Texts == {"t1", "t2"}
Queries == {"q1"}
MinScores == {3, 5}
Ks == 1..MaxK
Chars == {"x", ","}
Answers == {"answer", "I could not find an answer in the provided documents."}

NoChunk == [absent |-> TRUE]
NoReq == [kind |-> "none"]
NoResp == [status |-> 0]
NoFail == [none |-> TRUE]

Min(a, b) == IF a < b THEN a ELSE b

\* Python truthiness of a str: the empty string is falsy
Truthy(s) == s # ""

Present(st) == {i \in ChunkIds : st[i] # NoChunk}

\* All sequences of length n of distinct elements of S
RECURSIVE Arrangements(_, _)
Arrangements(S, n) ==
    IF n = 0 THEN {<<>>}
    ELSE UNION {{<<x>> \o r : r \in Arrangements(S \ {x}, n - 1)} : x \in S}

Range(s) == {s[i] : i \in 1..Len(s)}

(***************************************************************************)
(* The embedding space: distance of a stored text from a query, in tenths. *)
(* Cosine distance lies in [0, 2], so a score can be negative.             *)
(***************************************************************************)
Distance(q, t) == IF t = "t1" THEN 2 ELSE 7

(***************************************************************************)
(* Attributes: ",".join on upload, split(",") on read.                     *)
(***************************************************************************)
RECURSIVE Join(_)
Join(a) ==
    IF Len(a) = 0 THEN <<>>
    ELSE IF Len(a) = 1 THEN a[1]
    ELSE a[1] \o <<",">> \o Join(Tail(a))

\* str.split(","): always at least one piece, even for the empty string
RECURSIVE SplitComma(_)
SplitComma(s) ==
    IF \A i \in 1..Len(s) : s[i] # ","
    THEN <<s>>
    ELSE LET i == CHOOSE j \in 1..Len(s) :
                      s[j] = "," /\ \A l \in 1..(j - 1) : s[l] # ","
         IN  <<SubSeq(s, 1, i - 1)>> \o SplitComma(SubSeq(s, i + 1, Len(s)))

\* metadata.get("attributes", "").split(",") without the test for an empty value
ReadAttributes_NoTest(m) == SplitComma(m)

\* metadata.get("attributes", "").split(",") if metadata.get("attributes") else []
ReadAttributes(m) == IF m # <<>> THEN SplitComma(m) ELSE <<>>

(***************************************************************************)
(* sorted(..., key=..., reverse=True): a stable sort, largest key first.   *)
(* StableDescOrder(keys) is the order of the indices of keys.              *)
(***************************************************************************)
RECURSIVE StableDescOrder(_)
StableDescOrder(keys) ==
    IF Len(keys) = 0 THEN <<>>
    ELSE LET n == Len(keys)
             front == StableDescOrder(SubSeq(keys, 1, n - 1))
             pos == Cardinality({j \in 1..(n - 1) : keys[front[j]] >= keys[n]})
         IN  SubSeq(front, 1, pos) \o <<n>> \o SubSeq(front, pos + 1, n - 1)

(***************************************************************************)
(* The store adapter (services.py).                                        *)
(***************************************************************************)
\* One row of a query result: document, metadata and distance of a chunk
RawHit(st, q, i) ==
    [id |-> i, source_doc_id |-> st[i].source_doc_id, text |-> st[i].text,
     distance |-> Distance(q, st[i].text)]

\* collection.query(n_results=k): min(k, n) distinct chunks. The engine's
\* search is approximate and is not part of this code: every selection and
\* every order is a possible answer.
query_chroma(st, q, k) ==
    {[j \in 1..Len(a) |-> RawHit(st, q, a[j])] :
        a \in Arrangements(Present(st), Min(k, Cardinality(Present(st))))}

\* collection.upsert: each record replaces what is stored under its id. Of
\* the metadata, the keys that a handler reads back and computes with are
\* kept; chunk_index, section_heading, journal, publish_year, link and doi
\* are stored and returned as they came.
RECURSIVE upsert_chunks(_, _)
upsert_chunks(st, batch) ==
    IF batch = <<>> THEN st
    ELSE upsert_chunks(
            [st EXCEPT ![batch[1].id] =
                [source_doc_id |-> batch[1].source_doc_id,
                 text |-> batch[1].text,
                 usage_count |-> batch[1].usage_count,
                 attributes |-> Join(batch[1].attributes)]],
            Tail(batch))

\* collection.update(ids=[i], metadatas=[{"usage_count": n}]): the other keys stay
\* collection.update without the ids filter: every chunk gets the new count
update_usage_AllChunks(st, i, n) ==
    [j \in ChunkIds |-> IF st[j] = NoChunk THEN NoChunk ELSE [st[j] EXCEPT !.usage_count = n]]

update_usage(st, i, n) == [st EXCEPT ![i].usage_count = n]

UsageOf(st) == [i \in ChunkIds |-> IF st[i] = NoChunk THEN 0 ELSE st[i].usage_count]

(***************************************************************************)
(* similarity_search: score, filter, sort, truncate.                       *)
(***************************************************************************)
Score(distance) == Scale - distance

Hit(r) ==
    [chunk_id |-> r.id, source_doc_id |-> r.source_doc_id, text |-> r.text,
     score |-> Score(r.distance)]

RECURSIVE RawHits(_, _)
RawHits(results, min_score) ==
    IF results = <<>> THEN <<>>
    ELSE (IF Score(results[1].distance) >= min_score
          THEN <<Hit(results[1])>> ELSE <<>>)
         \o RawHits(Tail(results), min_score)

SortedByScore(raw_hits) ==
    LET order == StableDescOrder([j \in 1..Len(raw_hits) |-> raw_hits[j].score])
    IN  [j \in 1..Len(raw_hits) |-> raw_hits[order[j]]]

\* sorted(raw_hits, key=...) without reverse=True
FormattedResults_Ascending(results, k, min_score) ==
    LET raw == RawHits(results, min_score)
        desc == SortedByScore(raw)
        sorted == [j \in 1..Len(desc) |-> desc[Len(desc) + 1 - j]]
    IN  SubSeq(sorted, 1, Min(k, Len(sorted)))

FormattedResults(results, k, min_score) ==
    LET sorted == SortedByScore(RawHits(results, min_score))
    IN  SubSeq(sorted, 1, Min(k, Len(sorted)))

\* [hit["chunk_id"] for hit in formatted_results if hit.get("chunk_id")]
RECURSIVE SearchIdsToUpdate(_)
SearchIdsToUpdate(formatted) ==
    IF formatted = <<>> THEN <<>>
    ELSE (IF Truthy(formatted[1].chunk_id) THEN <<formatted[1].chunk_id>> ELSE <<>>)
         \o SearchIdsToUpdate(Tail(formatted))

SearchResponse(r, formatted) ==
    [status |-> 200, query |-> r.query, k |-> r.k, min_score |-> r.min_score,
     results |-> formatted]

(***************************************************************************)
(* State after construction: an empty collection, every worker idle.       *)
(***************************************************************************)
IdleProcs ==
    /\ pc = [p \in Procs |-> "idle"]
    /\ req = [p \in Procs |-> NoReq]
    /\ hits = [p \in Procs |-> <<>>]
    /\ ids = [p \in Procs |-> <<>>]
    /\ idx = [p \in Procs |-> 0]
    /\ cur = [p \in Procs |-> 0]
    /\ resp = [p \in Procs |-> NoResp]
    /\ pre = [p \in Procs |-> [i \in ChunkIds |-> 0]]
    /\ failedIds = [p \in Procs |-> {}]

Init ==
    /\ store = [i \in ChunkIds |-> NoChunk]
    /\ uploaded = [i \in ChunkIds |-> <<>>]
    /\ lastFailed = NoFail
    /\ IdleProcs

\* A request is admitted only while every counter is below the model's cap
BelowCap == \A i \in Present(store) : store[i].usage_count < MaxUsage

\* The handler has the request r and the ids to update; an empty list skips the loop
Begin(p, r, h, toUpdate, doneResp) ==
    /\ req' = [req EXCEPT ![p] = r]
    /\ hits' = [hits EXCEPT ![p] = h]
    /\ ids' = [ids EXCEPT ![p] = toUpdate]
    /\ pre' = [pre EXCEPT ![p] = UsageOf(store)]
    /\ failedIds' = [failedIds EXCEPT ![p] = {}]
    /\ cur' = cur
    /\ IF toUpdate # <<>>
       THEN /\ pc' = [pc EXCEPT ![p] = "read"]
            /\ idx' = [idx EXCEPT ![p] = 1]
            /\ resp' = resp
       ELSE /\ pc' = [pc EXCEPT ![p] = IF r.kind = "chat" THEN "gen" ELSE "done"]
            /\ idx' = idx
            /\ resp' = [resp EXCEPT ![p] = doneResp]

\* What the caller of update_usage_counts_in_chroma answers once the loop is over
AfterLoopResp(p) ==
    IF req[p].kind = "search" THEN SearchResponse(req[p], hits[p])
    ELSE IF req[p].kind = "incr" THEN [status |-> 200]
    ELSE NoResp

\* The exception leaves the loop and the handler: 500
NextId_Raise(p) ==
    /\ cur' = [cur EXCEPT ![p] = 0]
    /\ idx' = [idx EXCEPT ![p] = 0]
    /\ pc' = [pc EXCEPT ![p] = "done"]
    /\ resp' = [resp EXCEPT ![p] = [status |-> 500, raised |-> "update_usage_counts_in_chroma"]]

\* for chunk_id in chunk_ids: the next id, or the end of the loop
NextId(p) ==
    /\ cur' = [cur EXCEPT ![p] = 0]
    /\ IF idx[p] < Len(ids[p])
       THEN /\ idx' = [idx EXCEPT ![p] = idx[p] + 1]
            /\ pc' = [pc EXCEPT ![p] = "read"]
            /\ resp' = resp
       ELSE /\ idx' = [idx EXCEPT ![p] = 0]
            /\ pc' = [pc EXCEPT ![p] = IF req[p].kind = "chat" THEN "gen" ELSE "done"]
            /\ resp' = [resp EXCEPT ![p] = AfterLoopResp(p)]

(***************************************************************************)
(* update_usage_counts_in_chroma: per id, read, add one, write back.       *)
(***************************************************************************)
UsageRead(p) ==
    /\ pc[p] = "read"
    /\ LET i == ids[p][idx[p]]
       IN  IF store[i] # NoChunk
           THEN /\ cur' = [cur EXCEPT ![p] = store[i].usage_count]
                /\ pc' = [pc EXCEPT ![p] = "write"]
                /\ UNCHANGED <<idx, resp>>
           ELSE NextId(p)
    /\ UNCHANGED <<store, uploaded, req, hits, ids, pre, failedIds, lastFailed>>

\* new_usage_count = current_usage_count - 1
UsageWrite_Minus(p) ==
    /\ pc[p] = "write"
    /\ store' = update_usage(store, ids[p][idx[p]], cur[p] - 1)
    /\ NextId(p)
    /\ UNCHANGED <<uploaded, req, hits, ids, pre, failedIds, lastFailed>>

\* the update writes back the count as it was read
UsageWrite_NoIncrement(p) ==
    /\ pc[p] = "write"
    /\ store' = update_usage(store, ids[p][idx[p]], cur[p])
    /\ NextId(p)
    /\ UNCHANGED <<uploaded, req, hits, ids, pre, failedIds, lastFailed>>

UsageWrite(p) ==
    /\ pc[p] = "write"
    /\ store' = update_usage(store, ids[p][idx[p]], cur[p] + 1)
    /\ NextId(p)
    /\ UNCHANGED <<uploaded, req, hits, ids, pre, failedIds, lastFailed>>

\* the get or the update raises, and nothing catches it
UsageFail_Uncaught(p) ==
    /\ pc[p] \in {"read", "write"}
    /\ failedIds' = [failedIds EXCEPT ![p] = @ \cup {ids[p][idx[p]]}]
    /\ NextId_Raise(p)
    /\ UNCHANGED <<store, uploaded, req, hits, ids, pre, lastFailed>>

\* the get or the update raises: except Exception prints and goes on;
\* the update that raised has written nothing
UsageFail(p) ==
    /\ pc[p] \in {"read", "write"}
    /\ failedIds' = [failedIds EXCEPT ![p] = @ \cup {ids[p][idx[p]]}]
    /\ NextId(p)
    /\ UNCHANGED <<store, uploaded, req, hits, ids, pre, lastFailed>>

\* update_usage_counts_in_chroma called on its own, with any list of ids
IncrementUsage(p) ==
    /\ pc[p] = "idle"
    /\ BelowCap
    /\ \E n \in 0..Cardinality(ChunkIds) :
         \E l \in Arrangements(ChunkIds, n) :
            Begin(p, [kind |-> "incr"], <<>>, l, [status |-> 200])
    /\ lastFailed' = NoFail
    /\ UNCHANGED <<store, uploaded>>

(***************************************************************************)
(* PUT /upload                                                             *)
(***************************************************************************)
ChunkInputs(IdS, DocS, TextS, AttrS) ==
    [id : IdS, source_doc_id : DocS, text : TextS,
     usage_count : 0..MaxUploadUsage, attributes : AttrS]

\* The request bodies of n chunks with distinct ids
RECURSIVE BatchesOfLen(_, _)
BatchesOfLen(C, n) ==
    IF n = 0 THEN {<<>>}
    ELSE UNION {{<<c>> \o r : r \in BatchesOfLen({d \in C : d.id # c.id}, n - 1)} :
                  c \in C}

Batches(C) == UNION {BatchesOfLen(C, n) : n \in 1..MaxBatch}

RECURSIVE RecordUploads(_, _)
RecordUploads(u, batch) ==
    IF batch = <<>> THEN u
    ELSE RecordUploads([u EXCEPT ![batch[1].id] = batch[1].attributes], Tail(batch))

upload_chunks(p, bodies) ==
    /\ pc[p] = "idle"
    /\ \E batch \in bodies :
         /\ store' = upsert_chunks(store, batch)
         /\ uploaded' = RecordUploads(uploaded, batch)
         /\ resp' = [resp EXCEPT ![p] = [status |-> 200, count |-> Len(batch)]]
         /\ req' = [req EXCEPT ![p] = [kind |-> "upload"]]
    /\ pc' = [pc EXCEPT ![p] = "done"]
    /\ lastFailed' = NoFail
    /\ UNCHANGED <<hits, ids, idx, cur, pre, failedIds>>

\* services.upsert_chunks raises: 500
upload_chunks_fail(p) ==
    /\ pc[p] = "idle"
    /\ resp' = [resp EXCEPT ![p] = [status |-> 500, raised |-> "upsert_chunks"]]
    /\ req' = [req EXCEPT ![p] = [kind |-> "upload"]]
    /\ pc' = [pc EXCEPT ![p] = "done"]
    /\ UNCHANGED <<store, uploaded, hits, ids, idx, cur, pre, failedIds>>
    /\ lastFailed' = NoFail

(***************************************************************************)
(* POST /similarity_search                                                 *)
(***************************************************************************)
similarity_search(p) ==
    /\ pc[p] = "idle"
    /\ BelowCap
    /\ \E q \in Queries, k \in Ks, min_score \in MinScores :
         \E results \in query_chroma(store, q, k) :
            LET r == [kind |-> "search", query |-> q, k |-> k, min_score |-> min_score]
                formatted == FormattedResults(results, k, min_score)
            IN  Begin(p, r, formatted, SearchIdsToUpdate(formatted),
                      SearchResponse(r, formatted))
    /\ lastFailed' = NoFail
    /\ UNCHANGED <<store, uploaded>>

\* services.query_chroma raises: 500
similarity_search_fail(p) ==
    /\ pc[p] = "idle"
    /\ resp' = [resp EXCEPT ![p] = [status |-> 500, raised |-> "query_chroma"]]
    /\ req' = [req EXCEPT ![p] = [kind |-> "search"]]
    /\ pc' = [pc EXCEPT ![p] = "done"]
    /\ UNCHANGED <<store, uploaded, hits, ids, idx, cur, pre, failedIds>>
    /\ lastFailed' = NoFail

(***************************************************************************)
(* POST /chat                                                              *)
(***************************************************************************)
\* f"Source ID: {source_id}\nContent: {doc}", one block per raw result
ContextChunks(results) ==
    [j \in 1..Len(results) |->
        [source_id |-> results[j].source_doc_id, content |-> results[j].text]]

Citations(results) == {results[j].source_doc_id : j \in 1..Len(results)}

\* if metadata.get("id"): chunk_ids_to_update.append(metadata.get("id"))
RECURSIVE ChatIdsToUpdate(_)
ChatIdsToUpdate(results) ==
    IF results = <<>> THEN <<>>
    ELSE (IF Truthy(results[1].id) THEN <<results[1].id>> ELSE <<>>)
         \o ChatIdsToUpdate(Tail(results))

\* The chat handler with the score filter of similarity_search
ChatContext_Filtered(results, min_score) ==
    LET kept == SelectSeq(results, LAMBDA r : Score(r.distance) >= min_score)
    IN  [context |-> ContextChunks(kept),
         citations |-> Citations(kept),
         to_update |-> ChatIdsToUpdate(kept)]

\* The chat handler's use of the raw results; min_score is a field of the
\* request body that the handler has at hand
ChatContext(results, min_score) ==
    [context |-> ContextChunks(results),
     citations |-> Citations(results),
     to_update |-> ChatIdsToUpdate(results)]

\* The bare question without context, the grounding prompt with it
LlmPrompt(q, context) ==
    IF context = <<>>
    THEN [grounded |-> FALSE, context |-> <<>>, question |-> q]
    ELSE [grounded |-> TRUE, context |-> context, question |-> q]

\* The handler up to the call of update_usage_counts_in_chroma
ChatHandler(p, q, k, min_score) ==
    /\ \E results \in query_chroma(store, q, k) :
          LET r == [kind |-> "chat", query |-> q, k |-> k, min_score |-> min_score]
          IN  Begin(p, r, results, ChatContext(results, min_score).to_update, NoResp)
    /\ UNCHANGED <<store, uploaded>>

chat_with_llm(p) ==
    /\ pc[p] = "idle"
    /\ BelowCap
    /\ \E q \in Queries, k \in Ks, min_score \in MinScores :
          ChatHandler(p, q, k, min_score)
    /\ lastFailed' = NoFail

\* services.query_chroma raises: 500
chat_with_llm_fail(p) ==
    /\ pc[p] = "idle"
    /\ resp' = [resp EXCEPT ![p] = [status |-> 500, raised |-> "query_chroma"]]
    /\ req' = [req EXCEPT ![p] = [kind |-> "chat"]]
    /\ pc' = [pc EXCEPT ![p] = "done"]
    /\ UNCHANGED <<store, uploaded, hits, ids, idx, cur, pre, failedIds>>
    /\ lastFailed' = NoFail

\* services.generate_llm_response returns: the answer and list(citations)
GenerateResponse(p, answer) ==
    LET c == ChatContext(hits[p], req[p].min_score)
    IN  [status |-> 200, answer |-> answer,
         citations |-> IF c.context = <<>> THEN {} ELSE c.citations,
         prompt |-> LlmPrompt(req[p].query, c.context)]

Generate(p) ==
    /\ pc[p] = "gen"
    /\ \E answer \in Answers :
         resp' = [resp EXCEPT ![p] = GenerateResponse(p, answer)]
    /\ pc' = [pc EXCEPT ![p] = "done"]
    /\ UNCHANGED <<store, uploaded, req, hits, ids, idx, cur, pre, failedIds, lastFailed>>

\* generate raises and the counts of the request are taken back
GenerateFail_Rollback(p) ==
    /\ pc[p] = "gen"
    /\ resp' = [resp EXCEPT ![p] = [status |-> 500, raised |-> "generate_llm_response"]]
    /\ pc' = [pc EXCEPT ![p] = "done"]
    /\ store' = [i \in ChunkIds |->
                    IF store[i] = NoChunk THEN NoChunk
                    ELSE [store[i] EXCEPT !.usage_count = pre[p][i]]]
    /\ UNCHANGED <<uploaded, req, hits, ids, idx, cur, pre, failedIds, lastFailed>>

\* services.generate_llm_response raises: 500
GenerateFail(p) ==
    /\ pc[p] = "gen"
    /\ resp' = [resp EXCEPT ![p] = [status |-> 500, raised |-> "generate_llm_response"]]
    /\ pc' = [pc EXCEPT ![p] = "done"]
    /\ UNCHANGED <<store, uploaded, req, hits, ids, idx, cur, pre, failedIds, lastFailed>>

\* The chat request of worker p was answered 500 because generate raised
GenerateFailed(p) ==
    /\ pc[p] = "done"
    /\ req[p].kind = "chat"
    /\ resp[p] = [status |-> 500, raised |-> "generate_llm_response"]

\* The client answers the 500 of generate by sending the same request again
chat_retry(p) ==
    /\ GenerateFailed(p)
    /\ lastFailed = NoFail
    /\ BelowCap
    /\ ChatHandler(p, req[p].query, req[p].k, req[p].min_score)
    /\ lastFailed' = [req |-> req[p], pre |-> pre[p], ids |-> ids[p],
                      failedIds |-> failedIds[p]]

\* The response is sent; the worker takes the next request
Return(p) ==
    /\ pc[p] = "done"
    /\ pc' = [pc EXCEPT ![p] = "idle"]
    /\ req' = [req EXCEPT ![p] = NoReq]
    /\ hits' = [hits EXCEPT ![p] = <<>>]
    /\ ids' = [ids EXCEPT ![p] = <<>>]
    /\ idx' = [idx EXCEPT ![p] = 0]
    /\ cur' = [cur EXCEPT ![p] = 0]
    /\ resp' = [resp EXCEPT ![p] = NoResp]
    /\ pre' = [pre EXCEPT ![p] = [i \in ChunkIds |-> 0]]
    /\ failedIds' = [failedIds EXCEPT ![p] = {}]
    /\ lastFailed' = NoFail
    /\ UNCHANGED <<store, uploaded>>

(***************************************************************************)
(* GET /usage_statistics                                                   *)
(***************************************************************************)
\* usage_data: the keys of the dict, in the order of their first insertion
RECURSIVE UsageKeys(_, _)
UsageKeys(metadatas, seen) ==
    IF metadatas = <<>> THEN <<>>
    ELSE LET d == metadatas[1].source_doc_id
         IN  IF Truthy(d) /\ d \notin seen
             THEN <<d>> \o UsageKeys(Tail(metadatas), seen \cup {d})
             ELSE UsageKeys(Tail(metadatas), seen)

\* usage_data[source_doc_id] = usage_count: the last chunk's count, not the sum
RECURSIVE UsageTotal_Overwrite(_, _)
UsageTotal_Overwrite(metadatas, d) ==
    IF metadatas = <<>> THEN 0
    ELSE LET n == Len(metadatas)
         IN  IF metadatas[n].source_doc_id = d THEN metadatas[n].usage_count
             ELSE UsageTotal_Overwrite(SubSeq(metadatas, 1, n - 1), d)

\* usage_data[source_doc_id] = usage_data.get(source_doc_id, 0) + usage_count
RECURSIVE UsageTotal(_, _)
UsageTotal(metadatas, d) ==
    IF metadatas = <<>> THEN 0
    ELSE (IF metadatas[1].source_doc_id = d THEN metadatas[1].usage_count ELSE 0)
         + UsageTotal(Tail(metadatas), d)

SortedUsage(metadatas) ==
    LET keys == UsageKeys(metadatas, {})
        rows == [j \in 1..Len(keys) |->
                    [source_doc_id |-> keys[j],
                     total_usage_count |-> UsageTotal(metadatas, keys[j])]]
        order == StableDescOrder([j \in 1..Len(rows) |-> rows[j].total_usage_count])
    IN  [j \in 1..Len(rows) |-> rows[order[j]]]

\* collection.get(include=['metadatas']): every chunk, in the engine's order
get_all_chunks_from_chroma(st) ==
    {[j \in 1..Len(a) |-> st[a[j]]] :
        a \in Arrangements(Present(st), Cardinality(Present(st)))}

get_usage_statistics(p) ==
    /\ pc[p] = "idle"
    /\ \E metadatas \in get_all_chunks_from_chroma(store) :
          resp' = [resp EXCEPT ![p] = [status |-> 200, usage |-> SortedUsage(metadatas)]]
    /\ req' = [req EXCEPT ![p] = [kind |-> "usage_statistics"]]
    /\ pc' = [pc EXCEPT ![p] = "done"]
    /\ lastFailed' = NoFail
    /\ UNCHANGED <<store, uploaded, hits, ids, idx, cur, pre, failedIds>>

\* services.get_all_chunks_from_chroma raises: 500
get_usage_statistics_fail(p) ==
    /\ pc[p] = "idle"
    /\ resp' = [resp EXCEPT ![p] = [status |-> 500, raised |-> "get_all_chunks_from_chroma"]]
    /\ req' = [req EXCEPT ![p] = [kind |-> "usage_statistics"]]
    /\ pc' = [pc EXCEPT ![p] = "done"]
    /\ lastFailed' = NoFail
    /\ UNCHANGED <<store, uploaded, hits, ids, idx, cur, pre, failedIds>>

(***************************************************************************)
(* GET /{journal_id}                                                       *)
(***************************************************************************)
\* collection.get(where={"source_doc_id": journal_id}), in the engine's order
get_chunks_by_journal_id(st, journal_id) ==
    LET match == {i \in Present(st) : st[i].source_doc_id = journal_id}
    IN  Arrangements(match, Cardinality(match))

\* Chunk(id=metadata.get("id"), ..., attributes=attributes_list, text=doc)
MatchingChunk(st, i) ==
    [id |-> i, source_doc_id |-> st[i].source_doc_id, text |-> st[i].text,
     usage_count |-> st[i].usage_count,
     attributes |-> ReadAttributes(st[i].attributes)]

\* except Exception as e: raise HTTPException(status_code=500, ...). The
\* HTTPException(404) raised inside the try block is an Exception too.
ExceptClause(raised_status) == 500

JournalResponse(st, found) ==
    IF found = <<>>
    THEN [status |-> ExceptClause(404), raised |-> "HTTPException(404)"]
    ELSE [status |-> 200,
          chunks |-> [j \in 1..Len(found) |-> MatchingChunk(st, found[j])]]

get_journal_content(p) ==
    /\ pc[p] = "idle"
    /\ \E journal_id \in DocIds \ {""} :
          /\ req' = [req EXCEPT ![p] = [kind |-> "journal", journal_id |-> journal_id]]
          /\ \E found \in get_chunks_by_journal_id(store, journal_id) :
                resp' = [resp EXCEPT ![p] = JournalResponse(store, found)]
    /\ pc' = [pc EXCEPT ![p] = "done"]
    /\ lastFailed' = NoFail
    /\ UNCHANGED <<store, uploaded, hits, ids, idx, cur, pre, failedIds>>

\* services.get_chunks_by_journal_id raises: 500
get_journal_content_fail(p) ==
    /\ pc[p] = "idle"
    /\ \E journal_id \in DocIds \ {""} :
          req' = [req EXCEPT ![p] = [kind |-> "journal", journal_id |-> journal_id]]
    /\ resp' = [resp EXCEPT ![p] = [status |-> 500, raised |-> "get_chunks_by_journal_id"]]
    /\ pc' = [pc EXCEPT ![p] = "done"]
    /\ lastFailed' = NoFail
    /\ UNCHANGED <<store, uploaded, hits, ids, idx, cur, pre, failedIds>>

(***************************************************************************)
(* The request bodies of PUT /upload that the specifications draw from.    *)
(***************************************************************************)
RECURSIVE Strings(_)
Strings(n) ==
    IF n = 0 THEN {<<>>}
    ELSE Strings(n - 1) \cup {<<c>> \o t : c \in Chars, t \in {u \in Strings(n - 1) : Len(u) = n - 1}}

AttrLists == UNION {[1..n -> Strings(MaxAttrLen)] : n \in 0..MaxAttrs}

RetrievalBatches ==
    Batches(ChunkInputs(ChunkIds, {"doc1", "doc2"}, Texts, {<< <<"x">> >>}))

RetryBatches ==
    Batches(ChunkInputs(ChunkIds, {"doc1", "doc2"}, {"t1"}, {<< <<"x">> >>}))

AdminBatches == Batches(ChunkInputs(ChunkIds, DocIds, {"t1"}, {<< <<"x">> >>}))

AttrBatches == Batches(ChunkInputs({"a1"}, {"doc1"}, {"t1"}, AttrLists))

(***************************************************************************)
(* The handlers are async functions that never await: the event loop of    *)
(* the server runs one of them at a time, from the request to the          *)
(* response. Worker w1 is that loop; the calls to the store and to the     *)
(* model inside a handler are its steps.                                   *)
(***************************************************************************)
Next ==
    \/ upload_chunks("w1", RetrievalBatches)
    \/ upload_chunks_fail("w1")
    \/ similarity_search("w1")
    \/ similarity_search_fail("w1")
    \/ chat_with_llm("w1")
    \/ chat_with_llm_fail("w1")
    \/ Generate("w1")
    \/ GenerateFail("w1")
    \/ IncrementUsage("w1")
    \/ UsageRead("w1")
    \/ UsageWrite("w1")
    \/ UsageFail("w1")
    \/ Return("w1")

Spec == Init /\ [][Next]_vars

(***************************************************************************)
(* The handlers of one worker with the failed chat request sent again.     *)
(***************************************************************************)
NextRetry ==
    \/ upload_chunks("w1", RetryBatches)
    \/ chat_with_llm("w1")
    \/ Generate("w1")
    \/ GenerateFail("w1")
    \/ chat_retry("w1")
    \/ UsageRead("w1")
    \/ UsageWrite("w1")
    \/ UsageFail("w1")
    \/ Return("w1")

SpecRetry == Init /\ [][NextRetry]_vars

(***************************************************************************)
(* The administrative reads of one worker.                                 *)
(***************************************************************************)
NextAdmin ==
    \/ upload_chunks("w1", AdminBatches)
    \/ upload_chunks_fail("w1")
    \/ get_usage_statistics("w1")
    \/ get_usage_statistics_fail("w1")
    \/ get_journal_content("w1")
    \/ get_journal_content_fail("w1")
    \/ Return("w1")

SpecAdmin == Init /\ [][NextAdmin]_vars

(***************************************************************************)
(* Upload and read back of one chunk, over the attribute lists.            *)
(***************************************************************************)
NextAttrs ==
    \/ upload_chunks("w1", AttrBatches)
    \/ upload_chunks_fail("w1")
    \/ get_journal_content("w1")
    \/ get_journal_content_fail("w1")
    \/ Return("w1")

SpecAttrs == Init /\ [][NextAttrs]_vars

(***************************************************************************)
(* Two callers of update_usage_counts_in_chroma, one call each, their      *)
(* reads and writes interleaved, on a collection that holds a1 and a2.     *)
(***************************************************************************)
RaceInit ==
    /\ store \in [ChunkIds ->
                    [source_doc_id : {"doc1"}, text : {"t1"},
                     usage_count : 0..MaxUploadUsage, attributes : {<<"x">>}]
                    \cup {NoChunk}]
    /\ Present(store) = {"a1", "a2"}
    /\ uploaded = [i \in ChunkIds |-> IF i = "" THEN <<>> ELSE << <<"x">> >>]
    /\ lastFailed = NoFail
    /\ IdleProcs

NextRace ==
    \E p \in Procs :
        \/ IncrementUsage(p)
        \/ UsageRead(p)
        \/ UsageWrite(p)
        \/ UsageFail(p)

SpecRace == RaceInit /\ [][NextRace]_vars

(***************************************************************************)
(* Properties.                                                             *)
(***************************************************************************)
\* The handler of worker p has answered a request of this kind
Answered(p, kind) == pc[p] = "done" /\ req[p].kind = kind

\* usage_count of chunk i has grown by n since worker p's request began
GrownBy(p, i, n) == store[i] # NoChunk /\ store[i].usage_count = pre[p][i] + n

ResultIds(p) == {hits[p][j].chunk_id : j \in 1..Len(hits[p])}

\* C1: the results of similarity_search are in descending order of score,
\* each score is 1 - distance of its chunk, and none is below min_score.
C1_SortedAboveMinScore ==
    \A p \in Procs :
        (Answered(p, "search") /\ resp[p].status = 200) =>
            LET r == resp[p].results
            IN  /\ \A j, l \in 1..Len(r) : j < l => r[j].score >= r[l].score
                /\ \A j \in 1..Len(r) :
                      /\ r[j].score >= resp[p].min_score
                      /\ r[j].score = Scale - Distance(resp[p].query, r[j].text)

\* A search that returned two results of different scores
C1_Witness ==
    \E p \in Procs :
        /\ Answered(p, "search") /\ resp[p].status = 200
        /\ Len(resp[p].results) = 2
        /\ resp[p].results[1].score > resp[p].results[2].score

\* The search of worker p ran to completion and no call to the store raised
CleanSearch(p) ==
    Answered(p, "search") /\ resp[p].status = 200 /\ failedIds[p] = {}

\* C3 as stated: after a search without failures the usage_count of every
\* chunk of the result list is 1 higher than before, every other one unchanged.
C3_EveryResultIncremented ==
    \A p \in Procs :
        CleanSearch(p) =>
            \A i \in Present(store) :
                GrownBy(p, i, IF i \in ResultIds(p) THEN 1 ELSE 0)

\* C3 amended: the chunks of the result list whose id is not the empty string
\* are 1 higher than before; every other chunk, a result with the empty id
\* included, is unchanged.
C3_NonEmptyIdResultsIncremented ==
    \A p \in Procs :
        CleanSearch(p) =>
            \A i \in Present(store) :
                GrownBy(p, i, IF i \in ResultIds(p) /\ i # "" THEN 1 ELSE 0)

\* A search that returned a chunk, now counted, and left out another stored chunk
C3_Witness ==
    \E p \in Procs :
        /\ CleanSearch(p)
        /\ \E i \in ResultIds(p) : i # "" /\ GrownBy(p, i, 1) /\ pre[p][i] > 0
        /\ \E i \in Present(store) : i \notin ResultIds(p) /\ GrownBy(p, i, 0)

\* C4 as stated: no step lowers the usage_count stored for a chunk id.
C4_NeverDecreases ==
    [][\A i \in Present(store) :
          store'[i] # NoChunk /\ store'[i].usage_count >= store[i].usage_count]_vars

\* An upsert accepted by the store
UploadStep ==
    \E p \in Procs :
        pc[p] = "idle" /\ req'[p].kind = "upload" /\ resp'[p].status = 200

\* C4 amended: with the requests handled one at a time, no step of a search,
\* a chat or an update_usage_counts_in_chroma call lowers a stored
\* usage_count; only an upsert replaces it by the uploaded value, and no step
\* removes a chunk.
C4_OnlyUpsertLowers ==
    [][\A i \in Present(store) :
          /\ store'[i] # NoChunk
          /\ UploadStep \/ store'[i].usage_count >= store[i].usage_count]_vars

\* A retrieval that raised the count of a chunk uploaded with a positive one
C4_Witness ==
    \E p \in Procs, i \in ChunkIds :
        /\ pc[p] = "done" /\ req[p].kind \in {"search", "chat", "incr"}
        /\ pre[p][i] = MaxUploadUsage /\ GrownBy(p, i, 1)

\* The update loop of worker p is over; some get or update in it raised
LoopOverWithFailure(p) ==
    /\ pc[p] \in {"gen", "done"}
    /\ req[p].kind \in {"search", "chat", "incr"}
    /\ failedIds[p] # {}

\* C6: a get or update that raises for one id is suppressed: every other id
\* of the list (of a stored chunk) is still read and written back with one
\* more, and the search or chat goes on to its usual answer (the
\* search answers 200 with its results, the chat goes on to call generate).
C6_FailureSuppressed ==
    \A p \in Procs :
        LoopOverWithFailure(p) =>
            /\ \A i \in (Range(ids[p]) \cap Present(store)) \ failedIds[p] :
                  GrownBy(p, i, 1)
            /\ req[p].kind = "search" => resp[p] = SearchResponse(req[p], hits[p])
            /\ req[p].kind = "chat" =>
                  \/ pc[p] = "gen"
                  \/ resp[p].status = 200
                  \/ GenerateFailed(p)

\* A search answered 200 although the first of its two ids failed; the second was counted
C6_Witness ==
    \E p \in Procs :
        /\ Answered(p, "search") /\ resp[p].status = 200
        /\ Len(ids[p]) = 2
        /\ ids[p][1] \in failedIds[p]
        /\ ids[p][2] \notin failedIds[p]
        /\ GrownBy(p, ids[p][2], 1)

\* C9: chat does not depend on min_score: the prompt, the citations and the
\* ids to update are those of all raw results of the query, whatever the
\* min_score of the request, and exactly these ids are counted.
C9_ChatIgnoresMinScore ==
    \A p \in Procs :
        (Answered(p, "chat") /\ resp[p].status = 200) =>
            /\ \A m \in MinScores :
                  ChatContext(hits[p], m) = ChatContext(hits[p], req[p].min_score)
            /\ resp[p].prompt = LlmPrompt(req[p].query, ContextChunks(hits[p]))
            /\ resp[p].citations = Citations(hits[p])
            /\ ids[p] = ChatIdsToUpdate(hits[p])
            /\ \A i \in Present(store) :
                  GrownBy(p, i, IF i \in Range(ids[p]) \ failedIds[p] THEN 1 ELSE 0)

\* A chat that cited and counted a chunk whose score is below its min_score
C9_Witness ==
    \E p \in Procs :
        /\ Answered(p, "chat") /\ resp[p].status = 200
        /\ \E j \in 1..Len(hits[p]) :
              /\ Score(hits[p][j].distance) < req[p].min_score
              /\ hits[p][j].source_doc_id \in resp[p].citations
              /\ hits[p][j].id # ""
              /\ GrownBy(p, hits[p][j].id, 1)

\* The ids that the chat of worker p counted
Counted(p) == Range(ids[p]) \ failedIds[p]

\* C10: chat counts the retrieved ids before it calls generate; when generate
\* raises and the request is answered 500 the counts stay raised, and the
\* same request sent again raises them once more.
C10_CountedBeforeGenerate ==
    \A p \in Procs :
        /\ (pc[p] = "gen" \/ GenerateFailed(p)) =>
              \A i \in Counted(p) : GrownBy(p, i, 1)
        /\ (GenerateFailed(p) /\ lastFailed # NoFail) =>
              \A i \in Counted(p) \cap (Range(lastFailed.ids) \ lastFailed.failedIds) :
                  store[i].usage_count = lastFailed.pre[i] + 2

\* A chat answered 500 by generate for the second time, a chunk counted twice
C10_Witness ==
    \E p \in Procs :
        /\ GenerateFailed(p)
        /\ lastFailed # NoFail
        /\ \E i \in Counted(p) \cap (Range(lastFailed.ids) \ lastFailed.failedIds) :
              store[i].usage_count = lastFailed.pre[i] + 2

\* Both callers of update_usage_counts_in_chroma are through, nothing raised
BothDone ==
    \A p \in Procs : Answered(p, "incr") /\ failedIds[p] = {}

\* usage_count of chunk i before either call began
Before(i) == Min(pre["w1"][i], pre["w2"][i])

Callers(i) == {p \in Procs : i \in Range(ids[p])}

\* C5: when two interleaved calls have both completed, a chunk id that both
\* lists hold is 1 or 2 above its initial count (1 is the lost update); an
\* id of one list is 1 above, an id of neither is unchanged.
C5_AtMostOneLost ==
    BothDone =>
        \A i \in Present(store) :
            LET n == Cardinality(Callers(i))
                grown == store[i].usage_count - Before(i)
            IN  IF n = 2 THEN grown \in {1, 2} ELSE grown = n

\* Both calls completed on a1 and its count is only 1 above the initial one
C5_Witness ==
    /\ BothDone
    /\ Callers("a1") = Procs
    /\ store["a1"].usage_count = Before("a1") + 1

\* The journal request of worker p matched no chunk, and the store did not raise
UnknownJournal(p) ==
    /\ Answered(p, "journal")
    /\ \A i \in Present(store) : store[i].source_doc_id # req[p].journal_id
    /\ resp[p] # [status |-> 500, raised |-> "get_chunks_by_journal_id"]

\* C2: a journal id that matches no chunk is answered 404.
C2_UnknownJournalIs404 ==
    \A p \in Procs : UnknownJournal(p) => resp[p].status = 404

RECURSIVE SumUsage(_)
SumUsage(S) ==
    IF S = {} THEN 0
    ELSE LET i == CHOOSE j \in S : TRUE
         IN  store[i].usage_count + SumUsage(S \ {i})

ChunksOf(d) == {i \in Present(store) : store[i].source_doc_id = d}

\* The statistics answered to worker p list exactly the documents D, each
\* once, with the sum of its chunks' counts, largest total first
StatisticsOver(p, D) ==
    LET u == resp[p].usage
    IN  /\ {u[j].source_doc_id : j \in 1..Len(u)} = D
        /\ Len(u) = Cardinality(D)
        /\ \A j \in 1..Len(u) :
              u[j].total_usage_count = SumUsage(ChunksOf(u[j].source_doc_id))
        /\ \A j, l \in 1..Len(u) :
              j < l => u[j].total_usage_count >= u[l].total_usage_count

\* C8 as stated: the statistics have one entry per source_doc_id that has a chunk in
\* the store, with the sum of the usage_count of its chunks, sorted by total
\* descending; a document whose chunks are all at 0 is listed with 0.
C8_OneEntryPerDocument ==
    \A p \in Procs :
        (Answered(p, "usage_statistics") /\ resp[p].status = 200) =>
            StatisticsOver(p, {store[i].source_doc_id : i \in Present(store)})

\* C8 amended: the statistics have one entry per source_doc_id other than
\* the empty string that has a chunk in the store, with the sum of the
\* usage_count of its chunks, sorted by total descending; a document whose
\* chunks are all at 0 is listed with 0.
C8_OneEntryPerNonEmptyDocument ==
    \A p \in Procs :
        (Answered(p, "usage_statistics") /\ resp[p].status = 200) =>
            StatisticsOver(p, {store[i].source_doc_id : i \in Present(store)} \ {""})

\* Statistics of two documents: one with two chunks and a positive total, then one at 0
C8_Witness ==
    \E p \in Procs :
        /\ Answered(p, "usage_statistics") /\ resp[p].status = 200
        /\ Len(resp[p].usage) = 2
        /\ resp[p].usage[1].total_usage_count > 0
        /\ resp[p].usage[2].total_usage_count = 0
        /\ Cardinality(ChunksOf(resp[p].usage[1].source_doc_id)) = 2

NoComma(attrs) ==
    \A j \in 1..Len(attrs) : \A l \in 1..Len(attrs[j]) : attrs[j][l] # ","

\* The chunks answered to worker p carry the attributes uploaded for them,
\* for the uploaded lists that satisfy Covered
RoundTrip(p, Covered(_)) ==
    \A j \in 1..Len(resp[p].chunks) :
        LET c == resp[p].chunks[j]
        IN  Covered(uploaded[c.id]) => c.attributes = uploaded[c.id]

\* C7 as stated: an attributes list without a comma in any attribute comes
\* back from get_journal_content as it was uploaded.
C7_RoundTripWithoutComma ==
    \A p \in Procs :
        (Answered(p, "journal") /\ resp[p].status = 200) =>
            RoundTrip(p, NoComma)

\* The list that holds the empty string and nothing else
OnlyEmpty(attrs) == attrs = << <<>> >>

CommaFreeNotOnlyEmpty(attrs) == NoComma(attrs) /\ ~OnlyEmpty(attrs)

\* C7 amended: an attributes list without a comma in any attribute, other
\* than the one-element list of the empty string, comes back as it was
\* uploaded (same elements, same order, same length).
C7_RoundTripExceptOnlyEmpty ==
    \A p \in Procs :
        (Answered(p, "journal") /\ resp[p].status = 200) =>
            RoundTrip(p, CommaFreeNotOnlyEmpty)

\* A chunk read back with its two attributes, one of them the empty string
C7_Witness ==
    \E p \in Procs :
        /\ Answered(p, "journal") /\ resp[p].status = 200
        /\ \E j \in 1..Len(resp[p].chunks) :
              LET c == resp[p].chunks[j]
              IN  /\ c.attributes = uploaded[c.id]
                  /\ c.attributes = << <<"x">>, <<>> >>

====
